---- MODULE Spec2Model ----
(***************************************************************************)
(* A model of biplane2.py: the BendWire bent-wire pieces, the shared scene *)
(* they are laid out on and committed to (layout cursor, length ledger,    *)
(* solid accumulator, drawing), and the spool arrangement search that ends *)
(* the script.                                                             *)
(*                                                                         *)
(* Numbers.  The source computes with floats; the model computes the same  *)
(* expressions exactly, on inputs for which they are exact:                *)
(*   - segment lengths are whole millimetres, angles whole multiples of 90 *)
(*     degrees, so every joint coordinate is an integer (cos and sin are   *)
(*     -1, 0 or 1);                                                        *)
(*   - a diameter is written in hundredths of a millimetre (0.5 -> 50,     *)
(*     1.0 -> 100, 1.58 -> 158);                                           *)
(*   - a wire length (BendWire.length, the ledger entries, cum in          *)
(*     validate_arangement) is written in units of 1/LengthScale mm, in    *)
(*     which  length + diameter/2 * |angle| / 360  is the integer          *)
(*     LengthScale * length + diameter * |angle|.                          *)
(***************************************************************************)
EXTENDS Integers, Sequences, FiniteSets, TLC

VARIABLES
    pieces,             \* the BendWire objects constructed so far, in order
    DRAWING_HITBOX_X,   \* layout cursor, x
    DRAWING_HITBOX_Y,   \* layout cursor, y
    TOTAL_WIRE_LENGTH,  \* dict diameter -> list of lengths, in insertion order
    MODEL,              \* solid accumulator: the models added, in order
    DRAWING,            \* drawing: the groups added, in order
    raised,             \* the exception that ended the run, or "none"
    pc,                 \* "build" (lines 199-374), "search" (395-400), "done"
    di,                 \* search: index of the diameter of the outer loop
    n,                  \* search: enumerate() index of the permutation
    indices,            \* search: positions of the tuple permutations() yields
                        \* next, <<>> once it is exhausted
    printed             \* search: diameters reported "Arrangement found"

vars == <<pieces, DRAWING_HITBOX_X, DRAWING_HITBOX_Y, TOTAL_WIRE_LENGTH,
          MODEL, DRAWING, raised, pc, di, n, indices, printed>>

scene == <<DRAWING_HITBOX_X, DRAWING_HITBOX_Y, TOTAL_WIRE_LENGTH, MODEL, DRAWING>>

searchVars == <<pc, di, n, indices, printed>>

----------------------------------------------------------------------------
(* Program constants *)

LengthScale == 72000

UNIT_WIRE_LENGTH == (50 :> 300) @@ (100 :> 300) @@ (158 :> 304)

ORDERED_WIRE_LENGTH == (50 :> 300 * 5) @@ (100 :> 300 * 4) @@ (158 :> 304 * 2 * 2)

DIAMETER_COLOR_MAP == (50 :> "gray") @@ (100 :> "black")

PAGE_WIDTH == 297

DRAWING_HITBOX_MARGIN == 10

----------------------------------------------------------------------------
(* Bounds and inputs *)

\* A run makes at most MaxSize units of scene: one per piece, one per
\* transform in a history, one per add().
MaxSize == 6

\* A run constructs at most MaxPieces pieces.
MaxPieces == 4

\* At most MaxLedger ledger entries are handed to the arrangement search.
MaxLedger == 6

WireSegment(length, a0, a1) == [length |-> length, angles |-> <<a0, a1>>]

\* The pieces a run may construct: (title, diameter, segments).
Inputs ==
    { [title |-> "spar", diameter |-> 100,
       segments |-> <<WireSegment(200, 0, 0)>>],
      [title |-> "hook", diameter |-> 50,
       segments |-> <<WireSegment(30, 90, 0), WireSegment(200, -90, 0)>>],
      [title |-> "axis", diameter |-> 100,
       segments |-> <<WireSegment(280, 0, 0)>>],
      [title |-> "tail", diameter |-> 50,
       segments |-> <<WireSegment(20, 180, 0), WireSegment(10, 0, 90)>>] }

\* The pieces of the runs that transform and commit them.
SceneInputs == { in \in Inputs : in.title \in {"spar", "hook"} }

\* The paths a run may hand to simplify().
SimplifyInputs ==
    { [title |-> "fuselage", diameter |-> 100,
       segments |-> <<WireSegment(20, 0, 0), WireSegment(30, 0, 90)>>],
      [title |-> "fuselage", diameter |-> 100,
       segments |-> <<WireSegment(20, 90, 0), WireSegment(30, 90, 0)>>],
      [title |-> "fuselage", diameter |-> 100,
       segments |-> <<WireSegment(20, 0, 0)>>] }

TranslateArgs == { <<0, 0, 14>> }

RotateArgs == { <<0, 0, 90>> }

MirrorArgs == { <<1, 0, 0>> }

----------------------------------------------------------------------------
(* Vector and rotation arithmetic on multiples of 90 degrees *)

Abs(x) == IF x < 0 THEN -x ELSE x

Cos(a) == CASE a % 360 = 0 -> 1 [] a % 360 = 180 -> -1 [] OTHER -> 0

Sin(a) == CASE a % 360 = 90 -> 1 [] a % 360 = 270 -> -1 [] OTHER -> 0

\* acos, in degrees, of -1, 0 or 1
ACos(c) == CASE c = 1 -> 0 [] c = 0 -> 90 [] OTHER -> 180

Identity == << <<1, 0, 0>>, <<0, 1, 0>>, <<0, 0, 1>> >>

MatRow(a, B) ==
    << a[1] * B[1][1] + a[2] * B[2][1] + a[3] * B[3][1],
       a[1] * B[1][2] + a[2] * B[2][2] + a[3] * B[3][2],
       a[1] * B[1][3] + a[2] * B[2][3] + a[3] * B[3][3] >>

MatMul(A, B) == << MatRow(A[1], B), MatRow(A[2], B), MatRow(A[3], B) >>

\* R.from_euler('ZY', angles, degrees=True): intrinsic, Rz(angles[0]) . Ry(angles[1])
FromEulerZY(angles) ==
    MatMul(<< <<Cos(angles[1]), -Sin(angles[1]), 0>>,
              <<Sin(angles[1]),  Cos(angles[1]), 0>>,
              <<0, 0, 1>> >>,
           << <<Cos(angles[2]), 0, Sin(angles[2])>>,
              <<0, 1, 0>>,
              <<-Sin(angles[2]), 0, Cos(angles[2])>> >>)

\* rotation.apply([length, 0, 0])
ApplyForward(rotation, length) ==
    <<length * rotation[1][1], length * rotation[2][1], length * rotation[3][1]>>

VAdd(u, v) == <<u[1] + v[1], u[2] + v[2], u[3] + v[3]>>

Cross(u, v) ==
    <<u[2] * v[3] - u[3] * v[2], u[3] * v[1] - u[1] * v[3], u[1] * v[2] - u[2] * v[1]>>

\* the loop variable rotation after the first k segments
RECURSIVE RotationAfter(_, _)
RotationAfter(segments, k) ==
    IF k = 0 THEN Identity
    ELSE MatMul(RotationAfter(segments, k - 1), FromEulerZY(segments[k].angles))

\* the loop variable position after the first k segments
RECURSIVE PositionAfter(_, _)
PositionAfter(segments, k) ==
    IF k = 0 THEN <<0, 0, 0>>
    ELSE VAdd(PositionAfter(segments, k - 1),
              ApplyForward(RotationAfter(segments, k), segments[k].length))

Max(S) == CHOOSE x \in S : \A y \in S : y <= x

Min(S) == CHOOSE x \in S : \A y \in S : x <= y

svg_max_x(segments) ==
    Max({0} \cup {PositionAfter(segments, k)[1] : k \in 1..Len(segments)})

svg_min_x(segments) ==
    Min({0} \cup {PositionAfter(segments, k)[1] : k \in 1..Len(segments)})

svg_width(segments) == svg_max_x(segments) - svg_min_x(segments)

\* self.length
RECURSIVE BendWireLength(_, _, _)
BendWireLength(diameter, segments, k) ==
    IF k = 0 THEN 0
    ELSE BendWireLength(diameter, segments, k - 1)
         + LengthScale * segments[k].length + diameter * Abs(segments[k].angles[1])

\* self.cum_angle
RECURSIVE CumAngle(_, _)
CumAngle(segments, k) ==
    IF k = 0 THEN 0 ELSE CumAngle(segments, k - 1) + Abs(segments[k].angles[1])

svg_color(diameter, segments) ==
    IF \E k \in 1..Len(segments) : segments[k].angles[2] # 0
    THEN "red" ELSE DIAMETER_COLOR_MAP[diameter]

----------------------------------------------------------------------------
(* BendWire *)

\* the wrap test with the right margin left out
WrapsNoMargin(X, width) == X + width > PAGE_WIDTH

\* the cursor wraps to a new row
Wraps(X, width) == X + width > PAGE_WIDTH - 15

\* BendWire.__init__ with a known diameter and at least one segment: the new
\* object and the layout cursor it leaves
NewBendWire(title, diameter, segments) ==
    LET w    == svg_width(segments)
        wrap == Wraps(DRAWING_HITBOX_X, w)
        X    == IF wrap THEN 15 ELSE DRAWING_HITBOX_X
        Y    == IF wrap THEN DRAWING_HITBOX_Y + 25 ELSE DRAWING_HITBOX_Y
        len  == BendWireLength(diameter, segments, Len(segments))
    IN  [ wire |->
            [ title           |-> title,
              diameter        |-> diameter,
              segments        |-> segments,
              transformations |-> <<>>,
              length          |-> len,
              cum_angle       |-> CumAngle(segments, Len(segments)),
              model           |->
                [ cyls |-> [k \in 1..Len(segments) |->
                              [ h   |-> segments[k].length,
                                rot |-> RotationAfter(segments, k),
                                at  |-> PositionAfter(segments, k - 1) ]],
                  ops  |-> <<>> ],
              svg_group       |->
                [ id        |-> <<title, len, CumAngle(segments, Len(segments))>>,
                  stroke    |-> svg_color(diameter, segments),
                  lines     |-> [k \in 1..Len(segments) |->
                                   << PositionAfter(segments, k - 1)[1],
                                      PositionAfter(segments, k - 1)[2],
                                      PositionAfter(segments, k)[1],
                                      PositionAfter(segments, k)[2] >>],
                  translate |-> <<X - svg_min_x(segments), Y>>,
                  ops       |-> <<>> ] ],
          X |-> X + w + DRAWING_HITBOX_MARGIN,
          Y |-> Y ]

translate(wire, args) ==
    [wire EXCEPT !.transformations = Append(@, <<"t", args>>),
                 !.model.ops = Append(@, <<"t", args>>)]

\* mirror that records the call and leaves the solid as it was
mirrorHistoryOnly(wire, args) ==
    [wire EXCEPT !.transformations = Append(@, <<"m", args>>)]

mirror(wire, args) ==
    [wire EXCEPT !.transformations = Append(@, <<"m", args>>),
                 !.model.ops = Append(@, <<"m", args>>)]

rotate(wire, args) ==
    [wire EXCEPT !.transformations = Append(@, <<"r", args>>),
                 !.model.ops = Append(@, <<"r", args>>)]

\* the body of the loop of copy() with the "m" case left out
ReplayOneNoMirror(new, t) ==
    LET a == IF t[1] = "t" THEN translate(new, t[2]) ELSE new
    IN  IF t[1] = "r" THEN rotate(a, t[2]) ELSE a

\* the body of the loop of copy(): one recorded transformation applied to new
ReplayOne(new, t) ==
    LET a == IF t[1] = "t" THEN translate(new, t[2]) ELSE new
        b == IF t[1] = "r" THEN rotate(a, t[2]) ELSE a
    IN  IF t[1] = "m" THEN mirror(b, t[2]) ELSE b

\* the loop of copy() over the first k recorded transformations
RECURSIVE Replay(_, _, _)
Replay(new, transformations, k) ==
    IF k = 0 THEN new
    ELSE ReplayOne(Replay(new, transformations, k - 1), transformations[k])

\* BendWire.copy (and __call__): the new object
copy(self) ==
    Replay(NewBendWire(self.title, self.diameter, self.segments).wire,
           self.transformations, Len(self.transformations))

----------------------------------------------------------------------------
(* The scene *)

RECURSIVE SumLen(_, _)
SumLen(s, k) == IF k = 0 THEN 0 ELSE SumLen(s, k - 1) + Len(s[k])

TotalTransforms ==
    SumLen([i \in 1..Len(pieces) |-> pieces[i].transformations], Len(pieces))

\* what the run has built: pieces, recorded transformations, add() calls
Size == Len(pieces) + TotalTransforms + Len(MODEL)

calibration ==
    [ id |-> <<"calibration_10x10", 0, 0>>, stroke |-> "blue",
      lines |-> << <<0, 0, 10, 0>>, <<0, 0, 0, 10>> >>,
      translate |-> <<15, 15>>, ops |-> <<>> ]

Init ==
    /\ pieces = <<>>
    /\ DRAWING_HITBOX_X = 15 + 10 + DRAWING_HITBOX_MARGIN
    /\ DRAWING_HITBOX_Y = 15
    /\ TOTAL_WIRE_LENGTH = <<>>
    /\ MODEL = <<>>
    /\ DRAWING = <<calibration>>
    /\ raised = "none"
    /\ pc = "build"
    /\ di = 1
    /\ n = 0
    /\ indices = <<>>
    /\ printed = <<>>

Running == pc = "build" /\ raised = "none"

\* BendWire(title, diameter, *segments)
Construct(in) ==
    /\ Running
    /\ Size < MaxSize
    /\ Len(pieces) < MaxPieces
    /\ in.diameter \in DOMAIN DIAMETER_COLOR_MAP
    /\ Len(in.segments) > 0
    /\ LET new == NewBendWire(in.title, in.diameter, in.segments)
       IN  /\ pieces' = Append(pieces, new.wire)
           /\ DRAWING_HITBOX_X' = new.X
           /\ DRAWING_HITBOX_Y' = new.Y
    /\ UNCHANGED <<TOTAL_WIRE_LENGTH, MODEL, DRAWING, raised, searchVars>>

\* BendWire(title, diameter) with no segment, had svg_width been given the
\* value 0 before the loop: the piece is made and placed
ConstructEmptyPlaced(in) ==
    /\ Running
    /\ in.diameter \in DOMAIN DIAMETER_COLOR_MAP
    /\ LET new == NewBendWire(in.title, in.diameter, in.segments)
       IN  /\ pieces' = Append(pieces, new.wire)
           /\ DRAWING_HITBOX_X' = new.X
           /\ DRAWING_HITBOX_Y' = new.Y
    /\ UNCHANGED <<TOTAL_WIRE_LENGTH, MODEL, DRAWING, raised, searchVars>>

\* BendWire(title, diameter) with no segment: svg_width is never assigned, and
\* reading it at line 110 raises before any global is written
ConstructEmpty(in) ==
    /\ Running
    /\ in.diameter \in DOMAIN DIAMETER_COLOR_MAP
    /\ raised' = "UnboundLocalError"
    /\ UNCHANGED <<pieces, scene, searchVars>>

\* BendWire(title, 1.58, ...): DIAMETER_COLOR_MAP[diameter] raises at line 85
ConstructUnknownDiameter(in) ==
    /\ Running
    /\ raised' = "KeyError"
    /\ UNCHANGED <<pieces, scene, searchVars>>

Norm(v) == Abs(v[1]) + Abs(v[2]) + Abs(v[3])

\* simplify(title, diameter, *segments) on a path it accepts and whose two
\* segments are not collinear
Simplify(in) ==
    /\ Running
    /\ Size + 1 < MaxSize
    /\ Len(pieces) < MaxPieces
    /\ Len(in.segments) = 2
    /\ in.segments[1].angles = <<0, 0>>
    /\ LET p1 == PositionAfter(in.segments, 1)
           p2 == PositionAfter(in.segments, 2)
           v0 == p1
           v2 == VAdd(p2, <<-p1[1], -p1[2], -p1[3]>>)
           vn == Cross(v0, v2)
       IN  /\ Norm(vn) # 0
           /\ LET bend_angle == ACos((v0[1] * v2[1] + v0[2] * v2[2] + v0[3] * v2[3])
                                     \div (Norm(v0) * Norm(v2)))
                  rot_angle  == ACos(vn[3] \div Norm(vn))
                  new == NewBendWire(in.title, in.diameter,
                             << in.segments[1],
                                WireSegment(in.segments[2].length, bend_angle, 0) >>)
              IN  /\ pieces' = Append(pieces, rotate(new.wire, <<-rot_angle, 0, 0>>))
                  /\ DRAWING_HITBOX_X' = new.X
                  /\ DRAWING_HITBOX_Y' = new.Y
    /\ UNCHANGED <<TOTAL_WIRE_LENGTH, MODEL, DRAWING, raised, searchVars>>

\* simplify() on a path it rejects: ValueError, raised before any BendWire is made
SimplifyRejected(in) ==
    /\ Running
    /\ Len(in.segments) # 2 \/ in.segments[1].angles # <<0, 0>>
    /\ raised' = "ValueError"
    /\ UNCHANGED <<pieces, scene, searchVars>>

\* pieces[i].copy(), or pieces[i]()
CopyPiece(i) ==
    /\ Running
    /\ Size + 1 + Len(pieces[i].transformations) <= MaxSize
    /\ Len(pieces) < MaxPieces
    /\ LET self == pieces[i]
           new  == NewBendWire(self.title, self.diameter, self.segments)
       IN  /\ pieces' = Append(pieces, copy(self))
           /\ DRAWING_HITBOX_X' = new.X
           /\ DRAWING_HITBOX_Y' = new.Y
    /\ UNCHANGED <<TOTAL_WIRE_LENGTH, MODEL, DRAWING, raised, searchVars>>

Translate(i, args) ==
    /\ Running
    /\ Size < MaxSize
    /\ pieces' = [pieces EXCEPT ![i] = translate(@, args)]
    /\ UNCHANGED <<scene, raised, searchVars>>

Mirror(i, args) ==
    /\ Running
    /\ Size < MaxSize
    /\ pieces' = [pieces EXCEPT ![i] = mirror(@, args)]
    /\ UNCHANGED <<scene, raised, searchVars>>

Rotate(i, args) ==
    /\ Running
    /\ Size < MaxSize
    /\ pieces' = [pieces EXCEPT ![i] = rotate(@, args)]
    /\ UNCHANGED <<scene, raised, searchVars>>

\* the keys of the dict, in insertion order
Keys(ledger) == [k \in 1..Len(ledger) |-> ledger[k].d]

HasKey(ledger, d) == \E k \in 1..Len(ledger) : ledger[k].d = d

\* ledger[d]
Lookup(ledger, d) ==
    ledger[CHOOSE k \in 1..Len(ledger) : ledger[k].d = d].lengths

\* lines 146-148: ledger.setdefault(d, []).append(length)
LedgerAppend(ledger, d, length) ==
    LET withKey == IF HasKey(ledger, d) THEN ledger
                   ELSE Append(ledger, [d |-> d, lengths |-> <<>>])
    IN  [k \in 1..Len(withKey) |->
            IF withKey[k].d = d
            THEN [withKey[k] EXCEPT !.lengths = Append(@, length)]
            ELSE withKey[k]]

\* add() with the list of the diameter made anew on every call
AddOverwrite(i) ==
    /\ Running
    /\ Size < MaxSize
    /\ MODEL' = Append(MODEL, pieces[i].model)
    /\ TOTAL_WIRE_LENGTH' =
           LedgerAppend([k \in 1..Len(TOTAL_WIRE_LENGTH) |->
                            IF TOTAL_WIRE_LENGTH[k].d = pieces[i].diameter
                            THEN [TOTAL_WIRE_LENGTH[k] EXCEPT !.lengths = <<>>]
                            ELSE TOTAL_WIRE_LENGTH[k]],
                        pieces[i].diameter, pieces[i].length)
    /\ DRAWING' = Append(DRAWING, pieces[i].svg_group)
    /\ UNCHANGED <<pieces, DRAWING_HITBOX_X, DRAWING_HITBOX_Y, raised, searchVars>>

\* pieces[i].add()
Add(i) ==
    /\ Running
    /\ Size < MaxSize
    /\ MODEL' = Append(MODEL, pieces[i].model)
    /\ TOTAL_WIRE_LENGTH' =
           LedgerAppend(TOTAL_WIRE_LENGTH, pieces[i].diameter, pieces[i].length)
    /\ DRAWING' = Append(DRAWING, pieces[i].svg_group)
    /\ UNCHANGED <<pieces, DRAWING_HITBOX_X, DRAWING_HITBOX_Y, raised, searchVars>>

\* the calls that build the scene
Next ==
    \/ \E in \in SceneInputs : Construct(in)
    \/ \E i \in 1..Len(pieces) : CopyPiece(i)
    \/ \E i \in 1..Len(pieces), args \in TranslateArgs : Translate(i, args)
    \/ \E i \in 1..Len(pieces), args \in MirrorArgs : Mirror(i, args)
    \/ \E i \in 1..Len(pieces), args \in RotateArgs : Rotate(i, args)
    \/ \E i \in 1..Len(pieces) : Add(i)

Spec == Init /\ [][Next]_vars

\* the calls that construct pieces and place them on the page
LayoutNext ==
    \/ \E in \in Inputs : Construct(in)
    \/ \E in \in Inputs : ConstructEmpty([in EXCEPT !.segments = <<>>])
    \/ \E in \in Inputs : ConstructUnknownDiameter([in EXCEPT !.diameter = 158])
    \/ \E in \in SimplifyInputs : Simplify(in)
    \/ \E in \in SimplifyInputs : SimplifyRejected(in)
    \/ \E i \in 1..Len(pieces) : CopyPiece(i)

LayoutSpec == Init /\ [][LayoutNext]_vars

----------------------------------------------------------------------------
(* Claims about the pieces and the scene *)

Last(s) == s[Len(s)]

\* a step that constructs a piece (BendWire(...), copy() or simplify())
Constructs == Len(pieces') = Len(pieces) + 1

\* every piece there was is as it was
OldPiecesKept == \A j \in 1..Len(pieces) : pieces'[j] = pieces[j]

\* C4, as stated: the solid model and the schematic group of every piece are
\* in the same transform state.
C4_SameTransformState ==
    \A i \in 1..Len(pieces) : pieces[i].svg_group.ops = pieces[i].model.ops

\* C4, amended: a transform call appends (kind, args) to the history of its
\* piece and applies the operation to the solid model alone; the schematic
\* group keeps the placement of its construction.  So the operations applied
\* to the solid model are the history, and none is applied to the schematic.
C4_TransformsSolidOnly ==
    [][ /\ \A i \in 1..Len(pieces) :
               pieces'[i] # pieces[i] =>
                   \E t \in ({"t"} \X TranslateArgs) \cup ({"r"} \X RotateArgs)
                            \cup ({"m"} \X MirrorArgs) :
                       pieces'[i] =
                           [pieces[i] EXCEPT !.transformations = Append(@, t),
                                             !.model.ops = Append(@, t)]
        /\ \A i \in 1..Len(pieces') :
               /\ pieces'[i].model.ops = pieces'[i].transformations
               /\ pieces'[i].svg_group.ops = <<>>
               /\ pieces'[i].svg_group.translate[2] >= 15 ]_vars

\* a piece translated, then mirrored
C4_Witness ==
    \E i \in 1..Len(pieces) :
        /\ Len(pieces[i].transformations) = 2
        /\ pieces[i].transformations[1][1] = "t"
        /\ pieces[i].transformations[2][1] = "m"
        /\ pieces[i].model.ops = pieces[i].transformations
        /\ pieces[i].svg_group.ops = <<>>

\* C5: copy() returns a new instance with the title, diameter, segments, total
\* length and geometry of the original and a history equal to the original's,
\* entry for entry; it leaves the original as it was; and a transform of one
\* piece changes no other piece.
C5_CopyReplaysHistory ==
    [][ /\ \A i \in 1..Len(pieces) :
               (Constructs /\ CopyPiece(i)) =>
                   /\ OldPiecesKept
                   /\ Last(pieces').title = pieces[i].title
                   /\ Last(pieces').diameter = pieces[i].diameter
                   /\ Last(pieces').segments = pieces[i].segments
                   /\ Last(pieces').length = pieces[i].length
                   /\ Last(pieces').transformations = pieces[i].transformations
                   /\ Last(pieces').model = pieces[i].model
                   /\ Last(pieces').svg_group.lines = pieces[i].svg_group.lines
        /\ \A i \in 1..Len(pieces) :
               pieces'[i] # pieces[i] =>
                   /\ Len(pieces') = Len(pieces)
                   /\ \A j \in 1..Len(pieces) : j # i => pieces'[j] = pieces[j] ]_vars

\* a piece translated then mirrored, and a later piece that is its copy
C5_Witness ==
    \E i \in 1..Len(pieces), j \in 1..Len(pieces) :
        /\ i < j
        /\ pieces[i].transformations = << <<"t", <<0, 0, 14>> >>, <<"m", <<1, 0, 0>> >> >>
        /\ pieces[j].transformations = pieces[i].transformations
        /\ pieces[j].segments = pieces[i].segments
        /\ pieces[j].svg_group.translate # pieces[i].svg_group.translate

\* the ledger list of diameter d, empty when d is no key
Entries(ledger, d) == IF HasKey(ledger, d) THEN Lookup(ledger, d) ELSE <<>>

TotalEntries(ledger) == SumLen([k \in 1..Len(ledger) |-> ledger[k].lengths], Len(ledger))

\* C6: add() appends one entry, the total length of the piece as its segments
\* give it, to the ledger list of the piece's diameter and leaves the other
\* lists as they were; nothing else writes the ledger; so the ledger holds one
\* entry per add() call, as many as the solid accumulator holds models.
C6_AddAppendsLength ==
    [][ /\ \A i \in 1..Len(pieces) :
               Add(i) =>
                   \A d \in DOMAIN DIAMETER_COLOR_MAP :
                       Entries(TOTAL_WIRE_LENGTH', d) =
                           IF d = pieces[i].diameter
                           THEN Append(Entries(TOTAL_WIRE_LENGTH, d),
                                       BendWireLength(d, pieces[i].segments,
                                                      Len(pieces[i].segments)))
                           ELSE Entries(TOTAL_WIRE_LENGTH, d)
        /\ TOTAL_WIRE_LENGTH' # TOTAL_WIRE_LENGTH => \E i \in 1..Len(pieces) : Add(i)
        /\ MODEL' # MODEL => \E i \in 1..Len(pieces) : Add(i)
        /\ TotalEntries(TOTAL_WIRE_LENGTH') = Len(MODEL')
        /\ \A k \in 1..Len(TOTAL_WIRE_LENGTH') :
               /\ TOTAL_WIRE_LENGTH'[k].lengths # <<>>
               /\ \A j \in 1..Len(TOTAL_WIRE_LENGTH') :
                      TOTAL_WIRE_LENGTH'[j].d = TOTAL_WIRE_LENGTH'[k].d => j = k ]_vars

\* two mirrored pieces, one the copy of the other, both added: two equal entries
C6_Witness ==
    /\ Len(MODEL) = 2
    /\ MODEL[1].ops = << <<"m", <<1, 0, 0>> >> >>
    /\ MODEL[2].ops = MODEL[1].ops
    /\ DRAWING[2].translate # DRAWING[3].translate
    /\ \E k \in 1..Len(TOTAL_WIRE_LENGTH) :
           /\ Len(TOTAL_WIRE_LENGTH[k].lengths) = 2
           /\ TOTAL_WIRE_LENGTH[k].lengths[1] = TOTAL_WIRE_LENGTH[k].lengths[2]

\* the x and y of the end points of the lines of a schematic, as placed
PlacedXs(g) ==
    UNION { {g.lines[k][1] + g.translate[1], g.lines[k][3] + g.translate[1]} :
                k \in 1..Len(g.lines) }

PlacedYs(g) ==
    UNION { {g.lines[k][2] + g.translate[2], g.lines[k][4] + g.translate[2]} :
                k \in 1..Len(g.lines) }

BoxesDisjoint(g, h) ==
    \/ Max(PlacedXs(g)) < Min(PlacedXs(h))
    \/ Max(PlacedXs(h)) < Min(PlacedXs(g))
    \/ Max(PlacedYs(g)) < Min(PlacedYs(h))
    \/ Max(PlacedYs(h)) < Min(PlacedYs(g))

\* C7: the bounding boxes of the placed schematics of any two distinct pieces
\* are disjoint.
C7_SchematicsDisjoint ==
    \A i \in 1..Len(pieces), j \in 1..Len(pieces) :
        i < j => BoxesDisjoint(pieces[i].svg_group, pieces[j].svg_group)

\* a construction with no segment is rejected and writes nothing
EmptyConstructionRaises(error) ==
    /\ \A in \in Inputs :
           ConstructEmpty([in EXCEPT !.segments = <<>>]) =>
               /\ raised' = error
               /\ UNCHANGED <<pieces, scene>>
    /\ \A i \in 1..Len(pieces') : pieces'[i].segments # <<>>

\* C9, as stated: a BendWire with no segment fails with InvalidPathError and
\* leaves the cursor, the ledger, the solid accumulator and the drawing as
\* they were.
C9_EmptyRaisesInvalidPathError == [][EmptyConstructionRaises("InvalidPathError")]_vars

\* C9, amended: a BendWire with no segment fails with UnboundLocalError (the
\* read of svg_width, which no iteration assigned), no piece is made, and the
\* cursor, the ledger, the solid accumulator and the drawing are as they were.
C9_EmptyRaisesUnboundLocalError == [][EmptyConstructionRaises("UnboundLocalError")]_vars

\* the run ended on such a construction, pieces placed before it
C9_Witness ==
    /\ raised = "UnboundLocalError"
    /\ Len(pieces) >= 2
    /\ DRAWING_HITBOX_Y > 15

\* the horizontal extent of a schematic as drawn, the origin included
DrawnWidth(g) ==
    Max({0} \cup {g.lines[k][3] : k \in 1..Len(g.lines)})
    - Min({0} \cup {g.lines[k][3] : k \in 1..Len(g.lines)})

\* C10: a construction wraps the cursor (X to 15, Y up by 25) exactly when
\* X plus the width of the piece exceeds PAGE_WIDTH - 15, places the leftmost
\* point of the piece at the cursor and advances X by the width plus 10; so a
\* placed piece no wider than PAGE_WIDTH - 30 lies within [15, PAGE_WIDTH - 15],
\* and Y never decreases.
C10_CursorWraps ==
    [][ /\ Constructs =>
               LET g == Last(pieces').svg_group
                   w == DrawnWidth(g)
                   wrap == DRAWING_HITBOX_X + w > PAGE_WIDTH - 15
                   X == IF wrap THEN 15 ELSE DRAWING_HITBOX_X
               IN  /\ DRAWING_HITBOX_Y' = IF wrap THEN DRAWING_HITBOX_Y + 25
                                          ELSE DRAWING_HITBOX_Y
                   /\ Min(PlacedXs(g)) = X
                   /\ Max(PlacedXs(g)) = X + w
                   /\ g.translate[2] = DRAWING_HITBOX_Y'
                   /\ DRAWING_HITBOX_X' = X + w + 10
        /\ \A i \in 1..Len(pieces') :
               DrawnWidth(pieces'[i].svg_group) <= PAGE_WIDTH - 30 =>
                   /\ Min(PlacedXs(pieces'[i].svg_group)) >= 15
                   /\ Max(PlacedXs(pieces'[i].svg_group)) <= PAGE_WIDTH - 15
        /\ DRAWING_HITBOX_Y' >= DRAWING_HITBOX_Y ]_vars

\* a piece wrapped to a later row that ends at the right margin or before, and
\* a piece too wide for a row
C10_Witness ==
    /\ \E i \in 1..Len(pieces) :
           /\ pieces[i].svg_group.translate[2] > 15
           /\ DrawnWidth(pieces[i].svg_group) <= PAGE_WIDTH - 30
           /\ Min(PlacedXs(pieces[i].svg_group)) = 15
    /\ \E i \in 1..Len(pieces) : DrawnWidth(pieces[i].svg_group) > PAGE_WIDTH - 30

----------------------------------------------------------------------------
(* The arrangement search, lines 380-400 *)

\* the loop of validate_arangement from index s on (s counts from 1).  The
\* test  unit_number > ORDERED_WIRE_LENGTH[d] / UNIT_WIRE_LENGTH[d]  is a true
\* division; with positive integers it is the product test below.
RECURSIVE ValidateFrom(_, _, _, _, _)
ValidateFrom(d, arangement, s, unit_number, cum) ==
    IF s > Len(arangement) THEN TRUE
    ELSE IF cum + arangement[s] > UNIT_WIRE_LENGTH[d] * LengthScale
         THEN IF (unit_number + 1) * UNIT_WIRE_LENGTH[d] > ORDERED_WIRE_LENGTH[d]
              THEN FALSE
              ELSE ValidateFrom(d, arangement, s + 1, unit_number + 1, 0)
         ELSE ValidateFrom(d, arangement, s + 1, unit_number, cum + arangement[s])

\* validate_arangement with the operands of the division exchanged
RECURSIVE ValidateFromSwapped(_, _, _, _, _)
ValidateFromSwapped(d, arangement, s, unit_number, cum) ==
    IF s > Len(arangement) THEN TRUE
    ELSE IF cum + arangement[s] > UNIT_WIRE_LENGTH[d] * LengthScale
         THEN IF (unit_number + 1) * ORDERED_WIRE_LENGTH[d] > UNIT_WIRE_LENGTH[d]
              THEN FALSE
              ELSE ValidateFromSwapped(d, arangement, s + 1, unit_number + 1, 0)
         ELSE ValidateFromSwapped(d, arangement, s + 1, unit_number, cum + arangement[s])

validate_arangement_swapped(d, arangement) ==
    ValidateFromSwapped(d, arangement, 1, 0, 0)

validate_arangement(d, arangement) == ValidateFrom(d, arangement, 1, 0, 0)

\* the tuple that permutations(segments) yields for the positions idx
Arranged(segments, idx) == [k \in 1..Len(idx) |-> segments[idx[k]]]

\* range(len(segments)), counted from 1: the positions of the first tuple
FirstIndices(ledger, k) ==
    IF k <= Len(ledger) THEN [j \in 1..Len(ledger[k].lengths) |-> j] ELSE <<>>

\* idx with positions i and j exchanged and the part after i reversed
SwapReverse(idx, i, j) ==
    [k \in 1..Len(idx) |->
        IF k < i THEN idx[k]
        ELSE IF k = i THEN idx[j]
        ELSE IF Len(idx) + i + 1 - k = j THEN idx[i]
        ELSE idx[Len(idx) + i + 1 - k]]

\* permutations() yields the tuples in lexicographic order of the positions:
\* the positions of the tuple after idx, or <<>> when idx is the last.  i is
\* the last ascent of idx and j the last position after i holding more than
\* idx[i].
NextIndices(idx) ==
    IF \A i \in 1..(Len(idx) - 1) : idx[i] > idx[i + 1] THEN <<>>
    ELSE CHOOSE next \in
            { SwapReverse(idx, ij[1], ij[2]) :
                ij \in { p \in (1..Len(idx)) \X (1..Len(idx)) :
                           /\ p[1] < p[2]
                           /\ idx[p[1]] < idx[p[1] + 1]
                           /\ \A m \in (p[1] + 1)..(Len(idx) - 1) : idx[m] > idx[m + 1]
                           /\ idx[p[2]] > idx[p[1]]
                           /\ \A m \in (p[2] + 1)..Len(idx) : idx[m] < idx[p[1]] } } : TRUE

\* the pieces whose lengths the ledger handed to the search holds
SearchPieces ==
    { [diameter |-> 100, segments |-> <<WireSegment(200, 0, 0)>>],
      [diameter |-> 100, segments |-> <<WireSegment(150, 0, 0), WireSegment(150, 90, 0)>>],
      [diameter |-> 50,  segments |-> <<WireSegment(160, 0, 0)>>],
      [diameter |-> 50,  segments |-> <<WireSegment(300, 0, 0)>>] }

\* the ledgers that k add() calls on such pieces leave
RECURSIVE Ledgers(_)
Ledgers(k) ==
    IF k = 0 THEN { <<>> }
    ELSE { LedgerAppend(ledger, p.diameter,
                        BendWireLength(p.diameter, p.segments, Len(p.segments))) :
             ledger \in Ledgers(k - 1), p \in SearchPieces }

\* the state at line 395, the scene written to its files
SearchInit ==
    /\ pieces = <<>>
    /\ DRAWING_HITBOX_X = 15 + 10 + DRAWING_HITBOX_MARGIN
    /\ DRAWING_HITBOX_Y = 15
    /\ \E k \in 0..MaxLedger : TOTAL_WIRE_LENGTH \in Ledgers(k)
    /\ MODEL = <<>>
    /\ DRAWING = <<calibration>>
    /\ raised = "none"
    /\ pc = "search"
    /\ di = 1
    /\ n = 0
    /\ indices = FirstIndices(TOTAL_WIRE_LENGTH, 1)
    /\ printed = <<>>

InSearch == pc = "search" /\ di <= Len(TOTAL_WIRE_LENGTH)

\* line 398 true, with the break left out
SearchAcceptedNoBreak ==
    /\ InSearch
    /\ indices # <<>>
    /\ validate_arangement(TOTAL_WIRE_LENGTH[di].d,
                           Arranged(TOTAL_WIRE_LENGTH[di].lengths, indices))
    /\ printed' = Append(printed, TOTAL_WIRE_LENGTH[di].d)
    /\ n' = n + 1
    /\ indices' = NextIndices(indices)
    /\ UNCHANGED <<pieces, scene, raised, pc, di>>

\* line 398 true: print and break
SearchAccepted ==
    /\ InSearch
    /\ indices # <<>>
    /\ validate_arangement(TOTAL_WIRE_LENGTH[di].d,
                           Arranged(TOTAL_WIRE_LENGTH[di].lengths, indices))
    /\ printed' = Append(printed, TOTAL_WIRE_LENGTH[di].d)
    /\ di' = di + 1
    /\ n' = 0
    /\ indices' = FirstIndices(TOTAL_WIRE_LENGTH, di + 1)
    /\ UNCHANGED <<pieces, scene, raised, pc>>

\* line 398 false: on to the next permutation
SearchRejected ==
    /\ InSearch
    /\ indices # <<>>
    /\ ~validate_arangement(TOTAL_WIRE_LENGTH[di].d,
                            Arranged(TOTAL_WIRE_LENGTH[di].lengths, indices))
    /\ n' = n + 1
    /\ indices' = NextIndices(indices)
    /\ UNCHANGED <<pieces, scene, raised, pc, di, printed>>

\* permutations() is exhausted: the inner loop ends without a print
SearchExhausted ==
    /\ InSearch
    /\ indices = <<>>
    /\ di' = di + 1
    /\ n' = 0
    /\ indices' = FirstIndices(TOTAL_WIRE_LENGTH, di + 1)
    /\ UNCHANGED <<pieces, scene, raised, pc, printed>>

\* the outer loop is over: the script ends
SearchDone ==
    /\ pc = "search"
    /\ di > Len(TOTAL_WIRE_LENGTH)
    /\ pc' = "done"
    /\ UNCHANGED <<pieces, scene, raised, di, n, indices, printed>>

SearchNext ==
    \/ SearchAccepted
    \/ SearchRejected
    \/ SearchExhausted
    \/ SearchDone

SearchSpec == SearchInit /\ [][SearchNext]_vars

\* the interpreter runs the loops to their end
FairSearchSpec == SearchSpec /\ WF_vars(SearchNext)

----------------------------------------------------------------------------
(* Claims about the arrangement search *)

RECURSIVE SeqSum(_, _)
SeqSum(s, k) == IF k = 0 THEN 0 ELSE SeqSum(s, k - 1) + s[k]

Count(s, x) == Cardinality({k \in 1..Len(s) : s[k] = x})

Capacity(d) == UNIT_WIRE_LENGTH[d] * LengthScale

RECURSIVE Factorial(_)
Factorial(k) == IF k = 0 THEN 1 ELSE k * Factorial(k - 1)

Remove(s, i) == SubSeq(s, 1, i - 1) \o SubSeq(s, i + 1, Len(s))

\* the k-th permutation of s (k counts from 0) in lexicographic order of the
\* positions, by its factorial-base digits
RECURSIVE PermAt(_, _)
PermAt(s, k) ==
    IF Len(s) = 0 THEN <<>>
    ELSE LET f == Factorial(Len(s) - 1)
             i == (k \div f) + 1
         IN  <<s[i]>> \o PermAt(Remove(s, i), k % f)

\* the permutation the search is about to test
Arrangement == Arranged(TOTAL_WIRE_LENGTH[di].lengths, indices)

Testing == InSearch /\ indices # <<>>

\* some permutation of the list is accepted
SomeAccepted(d, lengths) ==
    \E j \in 0..(Factorial(Len(lengths)) - 1) : validate_arangement(d, PermAt(lengths, j))

\* the bins that greedy left-to-right packing uses: the first piece opens the
\* first bin, and a piece that would overflow the current bin opens the next
\* one and is put in it
RECURSIVE GreedyBins(_, _, _, _, _)
GreedyBins(d, arrangement, s, bins, cum) ==
    IF s > Len(arrangement) THEN bins
    ELSE IF cum + arrangement[s] > Capacity(d)
         THEN GreedyBins(d, arrangement, s + 1, bins + 1, arrangement[s])
         ELSE GreedyBins(d, arrangement, s + 1, bins, cum + arrangement[s])

\* C1: validate_arangement(d, arrangement) is true exactly when greedy packing
\* of the arrangement into bins of capacity UNIT_WIRE_LENGTH[d] uses no more
\* than floor(ORDERED_WIRE_LENGTH[d] / UNIT_WIRE_LENGTH[d]) bins.
C1_ValidateIsGreedyPacking ==
    Testing =>
        (validate_arangement(TOTAL_WIRE_LENGTH[di].d, Arrangement)
         <=> GreedyBins(TOTAL_WIRE_LENGTH[di].d, Arrangement, 1, 1, 0)
                 <= ORDERED_WIRE_LENGTH[TOTAL_WIRE_LENGTH[di].d]
                        \div UNIT_WIRE_LENGTH[TOTAL_WIRE_LENGTH[di].d])

\* C2: when the ledger list of a diameter is a single piece longer than
\* UNIT_WIRE_LENGTH[d], validate_arangement rejects it and the search never
\* reports "Arrangement found" for that diameter.
C2_OversizePieceRejected ==
    \A k \in 1..Len(TOTAL_WIRE_LENGTH) :
        (/\ Len(TOTAL_WIRE_LENGTH[k].lengths) = 1
         /\ TOTAL_WIRE_LENGTH[k].lengths[1] > Capacity(TOTAL_WIRE_LENGTH[k].d))
        => /\ ~validate_arangement(TOTAL_WIRE_LENGTH[k].d, TOTAL_WIRE_LENGTH[k].lengths)
           /\ Count(printed, TOTAL_WIRE_LENGTH[k].d) = 0

\* the case of C3: 5 spools of 300, every piece at most 300, less than 1500 in all
FitsFiveSpools(k) ==
    /\ UNIT_WIRE_LENGTH[TOTAL_WIRE_LENGTH[k].d] = 300
    /\ ORDERED_WIRE_LENGTH[TOTAL_WIRE_LENGTH[k].d] = 1500
    /\ \A j \in 1..Len(TOTAL_WIRE_LENGTH[k].lengths) :
           TOTAL_WIRE_LENGTH[k].lengths[j] <= 300 * LengthScale
    /\ SeqSum(TOTAL_WIRE_LENGTH[k].lengths, Len(TOTAL_WIRE_LENGTH[k].lengths))
           < 1500 * LengthScale

\* C3: with UNIT_WIRE_LENGTH[d] = 300 and ORDERED_WIRE_LENGTH[d] = 1500, a list
\* whose pieces are each at most 300 and sum to less than 1500 ends the search
\* of d with "Arrangement found".
C3_FiveSpoolsFound ==
    pc = "done" =>
        \A k \in 1..Len(TOTAL_WIRE_LENGTH) :
            FitsFiveSpools(k) => Count(printed, TOTAL_WIRE_LENGTH[k].d) = 1

\* a list of C3's case that does not fit one spool has been searched and found
C3_Witness ==
    /\ pc = "done"
    /\ \E k \in 1..Len(TOTAL_WIRE_LENGTH) :
           /\ FitsFiveSpools(k)
           /\ SeqSum(TOTAL_WIRE_LENGTH[k].lengths, Len(TOTAL_WIRE_LENGTH[k].lengths))
                  > 4 * Capacity(TOTAL_WIRE_LENGTH[k].d)
           /\ Count(printed, TOTAL_WIRE_LENGTH[k].d) = 1

\* at the end every diameter of the ledger has one outcome: reported found once
\* if some permutation is accepted, never reported if none is
OneOutcomeEach ==
    pc = "done" =>
        /\ \A k \in 1..Len(TOTAL_WIRE_LENGTH) :
               Count(printed, TOTAL_WIRE_LENGTH[k].d) =
                   IF SomeAccepted(TOTAL_WIRE_LENGTH[k].d, TOTAL_WIRE_LENGTH[k].lengths)
                   THEN 1 ELSE 0
        /\ Len(printed) <= Len(TOTAL_WIRE_LENGTH)

\* a report is made on an accepted permutation and ends that diameter's search;
\* the search moves to the next permutation only past a rejected one; it leaves
\* a diameter without a report only when every permutation has been rejected
ShortCircuit ==
    /\ printed' # printed =>
           /\ Testing
           /\ validate_arangement(TOTAL_WIRE_LENGTH[di].d, Arrangement)
           /\ printed' = Append(printed, TOTAL_WIRE_LENGTH[di].d)
           /\ di' = di + 1
    /\ (di' = di /\ n' # n) =>
           /\ Testing
           /\ ~validate_arangement(TOTAL_WIRE_LENGTH[di].d, Arrangement)
           /\ n' = n + 1
    /\ Testing => Arrangement = PermAt(TOTAL_WIRE_LENGTH[di].lengths, n)
    /\ (di' # di /\ printed' = printed) =>
           /\ InSearch
           /\ ~SomeAccepted(TOTAL_WIRE_LENGTH[di].d, TOTAL_WIRE_LENGTH[di].lengths)

\* C8: for every diameter of the ledger the permutation search terminates with
\* exactly one outcome: found, at the first accepted permutation and with no
\* further permutation tested, or not found once every permutation is rejected.
C8_SearchTerminatesOneOutcome ==
    /\ []OneOutcomeEach
    /\ [][ShortCircuit]_vars
    /\ <>(pc = "done")

\* the search is over with one diameter found past rejected permutations and
\* another not found
C8_Witness ==
    /\ pc = "done"
    /\ \E k \in 1..Len(TOTAL_WIRE_LENGTH) :
           /\ Count(printed, TOTAL_WIRE_LENGTH[k].d) = 1
           /\ ~validate_arangement(TOTAL_WIRE_LENGTH[k].d, TOTAL_WIRE_LENGTH[k].lengths)

====
